---- MODULE Spec2Model ----
(***************************************************************************)
(* Model of simple-blockchain/src/lib.rs: the genesis loader, the          *)
(* Blockchain (chain + pending pool), block creation, proof-of-work mining *)
(* and the canonical block hashing.                                        *)
(*                                                                         *)
(* Widths are scaled: a Bytes32 is HashLen bytes, an Address AddrLen       *)
(* bytes, the i64 nonce a NonceBits-bit two's complement integer and a     *)
(* digest byte a digit below ByteRadix.  A u64 is the pair [hi, lo] of its *)
(* two 32-bit halves, so that `as u32` is exactly "keep lo".               *)
(***************************************************************************)
EXTENDS Integers, Sequences, FiniteSets, TLC

MaxChain == 3
MaxPool == 2
NonceBits == 4
HashLen == 4
AddrLen == 1
ByteRadix == 2

MaxNonce == 2 ^ (NonceBits - 1) - 1
MinNonce == 0 - 2 ^ (NonceBits - 1)

----------------------------------------------------------------------------
(* Fixed-width byte values *)

Fill(n, b) == [i \in 1..n |-> b]

\* Default::default() of Bytes32: all-zero bytes
ZeroHash == Fill(HashLen, 0)

U64(hi, lo) == [hi |-> hi, lo |-> lo]

\* `x as u32` on a u64: the low 32 bits
AsU32(u) == u.lo

\* SystemTime::now().duration_since(UNIX_EPOCH).unwrap().as_secs()
Now == {U64(0, 1), U64(0, 2)}

----------------------------------------------------------------------------
(* Hex parsing *)

HexChars == <<"0", "1", "2", "3", "4", "5", "6", "7",
              "8", "9", "a", "b", "c", "d", "e", "f">>

IsHexChar(c) == \E i \in 1..16 : HexChars[i] = c

HexVal(c) == (CHOOSE i \in 1..16 : HexChars[i] = c) - 1

\* hex_string.strip_prefix("0x").unwrap_or_else(|| hex_string)
StripPrefix0x(s) ==
    IF Len(s) >= 2 /\ s[1] = "0" /\ s[2] = "x" THEN SubSeq(s, 3, Len(s)) ELSE s

\* <[u8; n]>::from_hex: <<bytes>> on success, <<>> on a FromHexError
parse_hex_string(s, n) ==
    IF Len(s) = 2 * n /\ \A i \in 1..Len(s) : IsHexChar(s[i])
    THEN << [i \in 1..n |-> 16 * HexVal(s[2 * i - 1]) + HexVal(s[2 * i])] >>
    ELSE << >>

parse_hex_string_as_bytes(s) == parse_hex_string(StripPrefix0x(s), HashLen)

parse_hex_string_as_address(s) == parse_hex_string(StripPrefix0x(s), AddrLen)

----------------------------------------------------------------------------
(* Block hashing *)

RECURSIVE Flatten(_)
Flatten(ss) == IF ss = << >> THEN << >> ELSE Head(ss) \o Flatten(Tail(ss))

\* derived Serialize of Transaction: from, to, value, hash
SerializeTx(tx) == tx.from \o tx.to \o <<tx.value>> \o tx.hash

\* bincode::serialize(&self) with the derived Serialize of Block:
\* hash, parent_hash, transactions (length-prefixed), timestamp
Serialize(b) ==
    b.hash \o b.parent_hash
    \o <<Len(b.transactions)>>
    \o Flatten([i \in 1..Len(b.transactions) |-> SerializeTx(b.transactions[i])])
    \o <<b.timestamp.hi, b.timestamp.lo>>

RECURSIVE BitsBE(_, _)
BitsBE(u, w) == IF w = 0 THEN << >> ELSE Append(BitsBE(u \div 2, w - 1), u % 2)

\* nonce.to_be_bytes(): big-endian two's complement
to_be_bytes(nonce) ==
    BitsBE(IF nonce < 0 THEN nonce + 2 ^ NonceBits ELSE nonce, NonceBits)

\* the hasher's state after hasher.input(bytes[i..])
RECURSIVE Absorb(_, _, _)
Absorb(acc, bytes, i) ==
    IF i > Len(bytes) THEN acc
    ELSE LET next == ((acc + bytes[i] + 1) * (acc + bytes[i] + 1) + 3 * acc + 5) % 251
         IN  Absorb(next, bytes, i + 1)

RECURSIVE Digits(_, _)
Digits(d, n) ==
    IF n = 0 THEN << >> ELSE Append(Digits(d \div ByteRadix, n - 1), d % ByteRadix)

\* Sha3::keccak256(): the fresh hasher
Keccak256 == 7

\* hasher.input(&encoded)
Encoded(b) == Absorb(Keccak256, Serialize(b), 1)

\* hasher.input(&nonce.to_be_bytes()); hasher.result(&mut hash); Bytes(hash)
Result(hasher, nonce) ==
    Digits(Absorb(hasher, to_be_bytes(nonce), 1) % (ByteRadix ^ HashLen), HashLen)

hash_block(b, nonce) == Result(Encoded(b), nonce)

\* a difficulty test that looks at the first byte only
StartsWith0(hash) == Len(hash) >= 1 /\ hash[1] = 0

\* hash.as_ref().starts_with(&[0, 0])
StartsWith00(hash) == Len(hash) >= 2 /\ hash[1] = 0 /\ hash[2] = 0

----------------------------------------------------------------------------
(* Mining *)

MineResult(outcome, hash, nonce, wrapped) ==
    [outcome |-> outcome, hash |-> hash, nonce |-> nonce, wrapped |-> wrapped]

\* The loop of mine, `hasher` being the hasher of hash_block after
\* input(&encoded).  `nonce += 1` at i64::MAX panics when the build has
\* overflow checks and wraps to i64::MIN when it has not; a wrapped search
\* that comes back to nonce 0 repeats itself forever.
RECURSIVE MineLoop(_, _, _, _, _)
MineLoop(b, hasher, nonce, wrapped, checks) ==
    IF StartsWith00(Result(hasher, nonce))
    THEN MineResult("found", Result(hasher, nonce), nonce, wrapped)
    ELSE IF nonce = MaxNonce /\ checks THEN MineResult("panic", b.hash, nonce, wrapped)
    ELSE IF nonce = -1 THEN MineResult("diverge", b.hash, nonce, wrapped)
    ELSE MineLoop(b, hasher, IF nonce = MaxNonce THEN MinNonce ELSE nonce + 1,
                  wrapped \/ nonce = MaxNonce, checks)

mine(b, checks) == MineLoop(b, Encoded(b), 0, FALSE, checks)

----------------------------------------------------------------------------
(* Blocks, transactions and the chain operations *)

Block(hash, parent_hash, txs, timestamp) ==
    [hash |-> hash, parent_hash |-> parent_hash,
     transactions |-> txs, timestamp |-> timestamp]

Transaction(from, to, value, hash) ==
    [from |-> from, to |-> to, value |-> value, hash |-> hash]

\* Block::new(parent_hash), `now` being the wall clock it reads
BlockNew(parent_hash, now) == Block(ZeroHash, parent_hash, << >>, now)

\* a constructor that drops the genesis it is given
BlockchainNewEmpty(genesis) == [chain |-> << >>, transactions |-> << >>]

\* Blockchain::new(genesis)
BlockchainNew(genesis) == [chain |-> <<genesis>>, transactions |-> << >>]

\* the loop written `for _ in 1..3`: two next()
SelectTwoTxs(pool) == SubSeq(pool, 1, IF Len(pool) < 2 THEN Len(pool) ELSE 2)

\* the `for _ in 1..2` loop of create_block over tx_iter: one next()
SelectTxs(pool) == IF pool # << >> THEN <<pool[1]>> ELSE << >>

\* a create_block that links to the first block instead of the latest
create_block_on_first(ch, pool, now) ==
    LET new == BlockNew(ch[1].hash, now)
    IN  [new EXCEPT !.transactions = SelectTxs(pool)]

create_block(ch, pool, now) ==
    LET latest == ch[Len(ch)]
        new == BlockNew(latest.hash, now)
    IN  [new EXCEPT !.transactions = SelectTxs(pool)]

\* block.hash = <the hash the loop broke with>
SetHash(b, hash) == [b EXCEPT !.hash = hash]

\* a push that overwrites the tip
ReplaceTip(ch, b) == [ch EXCEPT ![Len(ch)] = b]

\* self.chain.push(block.clone())
Push(ch, b) == Append(ch, b)

----------------------------------------------------------------------------
(* The genesis document *)

JU64(hi, lo) == [kind |-> "u64", hi |-> hi, lo |-> lo]
JNeg == [kind |-> "neg", hi |-> 0, lo |-> 0]
JNull == [kind |-> "null", hi |-> 0, lo |-> 0]

\* Value::as_u64(): <<u64>> or << >> for None
as_u64(j) == IF j.kind = "u64" THEN <<U64(j.hi, j.lo)>> ELSE << >>

\* one iteration of the loop of init_genesis: <<tx>>, or << >> when an
\* unwrap panics (a missing field, a hex error, a value that is no u64)
GenesisTx(dtx) ==
    IF dtx.from = << >> \/ dtx.to = << >> \/ dtx.hash = << >> THEN << >>
    ELSE LET from == parse_hex_string_as_address(dtx.from[1])
             to == parse_hex_string_as_address(dtx.to[1])
             hash == parse_hex_string_as_bytes(dtx.hash[1])
             value == as_u64(dtx.value)
         IN  IF from = << >> \/ to = << >> \/ hash = << >> \/ value = << >>
             THEN << >>
             ELSE << Transaction(from[1], to[1], AsU32(value[1]), hash[1]) >>

\* init_genesis(filename) on the document read from the file:
\* <<genesis>>, or << >> when no Block is produced
init_genesis(d) ==
    LET txs == [i \in 1..Len(d.transactions) |-> GenesisTx(d.transactions[i])]
        ts == as_u64(d.timestamp)
    IN  IF (\E i \in 1..Len(txs) : txs[i] = << >>) \/ ts = << >> THEN << >>
        ELSE LET genesis == Block(ZeroHash, ZeroHash, Flatten(txs), ts[1])
             IN  << SetHash(genesis, hash_block(genesis, 0)) >>

\* the genesis of run when no file is configured
DefaultGenesis(now) == Block(ZeroHash, ZeroHash, << >>, now)

----------------------------------------------------------------------------
(* Inputs *)

HexOf(n, c) == Fill(2 * n, c)

Prefixed(s) == <<"0", "x">> \o s

Tx1 == Transaction(Fill(AddrLen, 17), Fill(AddrLen, 34), 5, Fill(HashLen, 51))
Tx2 == Transaction(Fill(AddrLen, 34), Fill(AddrLen, 17), 7, Fill(HashLen, 68))

TxInputs == {Tx1, Tx2}

DocTxs ==
    [from : {<<Prefixed(HexOf(AddrLen, "1"))>>, << >>},
     to : {<<HexOf(AddrLen, "2")>>, <<Prefixed(HexOf(AddrLen, "g"))>>},
     hash : {<<Prefixed(HexOf(HashLen, "3"))>>, <<Prefixed(HexOf(HashLen, "3") \o <<"3">>)>>},
     value : {JU64(0, 5), JU64(1, 5), JNeg}]

Docs ==
    [transactions : {<< >>} \cup {<<t>> : t \in DocTxs},
     timestamp : {JU64(0, 1), JNull}]

CallerGenesis ==
    {Block(Fill(HashLen, 1), ZeroHash, << >>, U64(0, 1)),
     Block(Fill(HashLen, 1), Fill(HashLen, 1), <<Tx1>>, U64(0, 1))}

----------------------------------------------------------------------------
(* State *)

VARIABLES
    phase,            \* "start", "running", "panicked" or "diverged"
    overflow_checks,  \* whether the build panics on integer overflow
    chain,            \* Blockchain.chain
    transactions,     \* Blockchain.transactions, the pending pool
    genesis,          \* the Block given to Blockchain::new: <<g>> or << >>
    genesis_src,      \* "none", "init_genesis", "default" or "caller"
    doc,              \* the document init_genesis read: <<d>> or << >>
    mined,            \* what mine returned for each block of chain
    last              \* the last call: its name, its candidate block, mine's result, the pool before

vars == <<phase, overflow_checks, chain, transactions, genesis,
          genesis_src, doc, mined, last>>

NoMine == MineResult("none", ZeroHash, 0, FALSE)

Call(op, cand, res, pool) == [op |-> op, cand |-> cand, res |-> res, pool |-> pool]

Init ==
    /\ phase = "start"
    /\ overflow_checks \in BOOLEAN
    /\ chain = << >>
    /\ transactions = << >>
    /\ genesis = << >>
    /\ genesis_src = "none"
    /\ doc = << >>
    /\ mined = << >>
    /\ last = Call("none", << >>, NoMine, << >>)

Construct(g, src) ==
    LET bc == BlockchainNew(g) IN
    /\ chain' = bc.chain
    /\ transactions' = bc.transactions
    /\ genesis' = <<g>>
    /\ genesis_src' = src
    /\ phase' = "running"
    /\ mined' = <<NoMine>>
    /\ last' = Call("new", << >>, NoMine, << >>)
    /\ UNCHANGED overflow_checks

\* run with Some(filename): init_genesis(&filename).unwrap(), Blockchain::new
RunGenesisFile ==
    /\ phase = "start"
    /\ \E d \in Docs :
        LET g == init_genesis(d) IN
        /\ doc' = <<d>>
        /\ IF g = << >>
           THEN /\ phase' = "panicked"
                /\ last' = Call("init_genesis", << >>, NoMine, << >>)
                /\ UNCHANGED <<overflow_checks, chain, transactions,
                               genesis, genesis_src, mined>>
           ELSE Construct(g[1], "init_genesis")

\* run with no file: the default genesis, Blockchain::new
RunDefaultGenesis ==
    /\ phase = "start"
    /\ \E now \in Now : Construct(DefaultGenesis(now), "default")
    /\ UNCHANGED doc

\* Blockchain::new(genesis) called with a Block of the caller's own
NewFromCaller ==
    /\ phase = "start"
    /\ \E g \in CallerGenesis : Construct(g, "caller")
    /\ UNCHANGED doc

AddPendingTransaction ==
    /\ phase = "running"
    /\ Len(transactions) < MaxPool
    /\ \E tx \in TxInputs :
        /\ transactions' = Append(transactions, tx)
        /\ last' = Call("add_pending_transaction", << >>, NoMine, transactions)
    /\ UNCHANGED <<phase, overflow_checks, chain, genesis, genesis_src,
                   doc, mined>>

\* create_block called on its own: the caller gets the candidate, self is not touched
CreateBlock ==
    /\ phase = "running"
    /\ \E now \in Now :
        last' = Call("create_block", <<create_block(chain, transactions, now)>>,
                     NoMine, transactions)
    /\ UNCHANGED <<phase, overflow_checks, chain, transactions, genesis,
                   genesis_src, doc, mined>>

\* how a call of mine ends: it returns, panics on the overflow, or never ends
Ended(res) ==
    CASE res.outcome = "found" -> "running"
      [] res.outcome = "panic" -> "panicked"
      [] OTHER -> "diverged"

AddNewBlock ==
    /\ phase = "running"
    /\ Len(chain) < MaxChain
    /\ \E now \in Now :
        LET new == create_block(chain, transactions, now)
            res == mine(new, overflow_checks)
        IN  /\ IF res.outcome = "found"
               THEN /\ chain' = Push(chain, SetHash(new, res.hash))
                    /\ mined' = Append(mined, res)
               ELSE UNCHANGED <<chain, mined>>
            /\ phase' = Ended(res)
            /\ last' = Call("add_new_block", <<new>>, res, transactions)
    /\ UNCHANGED <<overflow_checks, transactions, genesis, genesis_src, doc>>

Next ==
    \/ RunGenesisFile
    \/ RunDefaultGenesis
    \/ NewFromCaller
    \/ AddPendingTransaction
    \/ CreateBlock
    \/ AddNewBlock

Spec == Init /\ [][Next]_vars

----------------------------------------------------------------------------
(* Properties *)

Constructed == genesis_src # "none"

\* add_new_block returned (mine found a hash and the block was pushed)
Appended(call) == call.op = "add_new_block" /\ call.res.outcome = "found"

IsPrefix(s, t) == Len(s) <= Len(t) /\ SubSeq(t, 1, Len(s)) = s

\* C1: every block after the first has parent_hash equal to the hash of the
\* block right before it in chain.
ParentHashLinked ==
    \A i \in 2..Len(chain) : chain[i].parent_hash = chain[i - 1].hash

ParentHashLinkedWitness ==
    /\ Len(chain) >= 3
    /\ chain[2].hash # chain[1].hash
    /\ chain[3].parent_hash = chain[2].hash

\* C2: every block add_new_block appended has a hash whose first two bytes
\* are zero, and that hash is the value mine returned for it.
AppendedBlocksMined ==
    /\ Len(mined) = Len(chain)
    /\ \A i \in 2..Len(chain) :
        /\ chain[i].hash[1] = 0
        /\ chain[i].hash[2] = 0
        /\ mined[i].outcome = "found"
        /\ chain[i].hash = mined[i].hash

AppendedBlocksMinedWitness ==
    /\ Len(chain) >= 3
    /\ chain[3].hash # ZeroHash
    /\ chain[3].hash = mined[3].hash
    /\ mined[3].nonce > 0

\* C3: the block's own hash field is no input of hash_block, so hashing a
\* mined block as stored in chain with its winning nonce gives its stored hash.
HashFieldExcluded ==
    \A i \in 2..Len(chain) :
        /\ hash_block(chain[i], mined[i].nonce) = chain[i].hash
        /\ \A n \in MinNonce..MaxNonce :
            hash_block(chain[i], n) = hash_block(SetHash(chain[i], ZeroHash), n)

\* C4: create_block and add_new_block leave the pool as it was; the new
\* block carries exactly the first pool entry, or nothing when the pool is
\* empty; two add_new_block calls in a row put the same transactions in
\* their blocks.
PoolKeptBySelection ==
    /\ [](last.op \in {"create_block", "add_new_block"} =>
            /\ transactions = last.pool
            /\ Len(last.cand[1].transactions) = (IF last.pool = << >> THEN 0 ELSE 1)
            /\ \A k \in 1..Len(last.cand[1].transactions) :
                /\ last.cand[1].transactions[k] = last.pool[1]
                /\ transactions[1] = last.cand[1].transactions[k]
            /\ Appended(last) =>
                chain[Len(chain)].transactions = last.cand[1].transactions)
    /\ [][(Appended(last) /\ Appended(last')) =>
            chain'[Len(chain')].transactions = chain[Len(chain)].transactions]_vars

PoolKeptBySelectionWitness ==
    /\ Len(chain) >= 3
    /\ Appended(last)
    /\ Len(transactions) >= 2
    /\ chain[2].transactions = <<transactions[1]>>
    /\ chain[3].transactions = <<transactions[1]>>

\* C5: no pool entry is copied into the transaction lists of two different
\* blocks appended to chain.
PoolEntryInOneBlock ==
    \A k \in 1..Len(transactions) :
        \A i, j \in 2..Len(chain) :
            (/\ \E x \in 1..Len(chain[i].transactions) :
                    chain[i].transactions[x] = transactions[k]
             /\ \E y \in 1..Len(chain[j].transactions) :
                    chain[j].transactions[y] = transactions[k])
            => i = j

\* C6 as claimed: chain is never empty and chain[0] has the all-zero
\* parent_hash, whatever genesis Blockchain::new was given.
GenesisParentZero ==
    Constructed => (chain # << >> /\ chain[1].parent_hash = ZeroHash)

\* C6 as amended: chain is never empty and chain[0] stays the block given to
\* Blockchain::new; its parent_hash is all-zero when that block came from
\* init_genesis or from the default genesis of run.
GenesisKept ==
    Constructed =>
        /\ chain # << >>
        /\ chain[1] = genesis[1]
        /\ genesis_src \in {"init_genesis", "default"} => chain[1].parent_hash = ZeroHash

GenesisKeptWitness ==
    /\ genesis_src = "init_genesis"
    /\ Len(chain) >= 3
    /\ chain[1].transactions # << >>
    /\ chain[1].parent_hash = ZeroHash

\* C7: add_new_block appends exactly one block, and no call changes or
\* removes a block that is already in chain.
ChainAppendOnly ==
    [][/\ IsPrefix(chain, chain')
       /\ IF Appended(last') \/ last'.op = "new"
          THEN Len(chain') = Len(chain) + 1
          ELSE chain' = chain]_vars

ChainAppendOnlyWitness ==
    /\ Len(chain) >= 3
    /\ last.op = "add_pending_transaction"

\* C8: mine returns hash_block of the candidate, whose hash field is unset,
\* at the smallest non-negative nonce whose hash starts with two zero
\* bytes, and changes no field of the block but hash.
MineFirstNonce ==
    Appended(last) =>
        LET cand == last.cand[1]
            res == last.res
        IN  /\ cand.hash = ZeroHash
            /\ res.nonce >= 0
            /\ res.hash = hash_block(cand, res.nonce)
            /\ res.hash[1] = 0 /\ res.hash[2] = 0
            /\ \A n \in 0..(res.nonce - 1) :
                ~(hash_block(cand, n)[1] = 0 /\ hash_block(cand, n)[2] = 0)
            /\ chain[Len(chain)] = [cand EXCEPT !.hash = res.hash]

\* C9: init_genesis never yields a genesis whose transaction value differs
\* from the value in the document: each value fits in 32 bits and is kept.
GenesisValuesKept ==
    genesis_src = "init_genesis" =>
        /\ Len(chain[1].transactions) = Len(doc[1].transactions)
        /\ \A i \in 1..Len(doc[1].transactions) :
            /\ doc[1].transactions[i].value.kind = "u64"
            /\ doc[1].transactions[i].value.hi = 0
            /\ doc[1].transactions[i].value.lo = chain[1].transactions[i].value

\* C10: when no non-negative nonce satisfies the difficulty, the overflow of
\* the nonce is fatal: the nonce never wraps to a negative value and the
\* search never goes on with a wrapped nonce.
NonceNeverWraps ==
    /\ phase # "diverged"
    /\ last.op = "add_new_block" =>
        /\ ~last.res.wrapped
        /\ last.res.nonce >= 0
        /\ (\A n \in 0..MaxNonce : ~StartsWith00(hash_block(last.cand[1], n)))
            => phase = "panicked"
====
